---- MODULE Spec2Model ----
(***************************************************************************)
(* Two configurators of the repository, modelled as state machines.        *)
(*                                                                         *)
(*   script.js  (second listing, lines 386-862): the multi-form           *)
(*       configurator: BearState, SceneManager, UIController and           *)
(*       BearConfigurator.loadAssets.                                      *)
(*   part_000: the single-bear configurator with hat / beanie / scarf,     *)
(*       module-level state and the fallback timer.                        *)
(*                                                                         *)
(* Every handler (load completion, DOM listener, timer) is one action: the *)
(* JavaScript event loop runs each to completion before the next.          *)
(* Numbers with decimals in the source are kept in hundredths.             *)
(***************************************************************************)
EXTENDS Integers, Sequences, FiniteSets, TLC

VARIABLES
    sceneManager,   \* script.js: the SceneManager instance (registries, scene objects)
    bearState,      \* script.js: the BearState instance
    checked,        \* script.js: checked flag of each [data-accessory] checkbox
    loadState,      \* script.js: each GLTFLoader.load request: loading / loaded / failed
    defaultState,   \* script.js: what the object CONFIG.defaultState holds now
    accessoriesRef, \* script.js: the object bearState.accessories refers to
    page,           \* part_000: the module-level bindings and the DOM controls
    requests,       \* part_000: each gltfLoader.load request: loading / loaded / failed
    timer           \* part_000: the setTimeout of the last lines: pending / fired

varsScript == <<sceneManager, bearState, checked, loadState, defaultState, accessoriesRef>>
varsPart == <<page, requests, timer>>
vars == <<sceneManager, bearState, checked, loadState, defaultState, accessoriesRef,
         page, requests, timer>>

----------------------------------------------------------------------------
(* Bounds *)

\* drawable surfaces (meshes) in each bear model file
MeshesPerModel == 3

\* how many of the fur / eye colour buttons the user presses
ColorButtons == 2

\* drawable surfaces (meshes) in each accessory file of part_000
MeshesPerAccessory == 2

\* meshes of a bear file of part_000 when files are enumerated
MeshesPerBear == 3

----------------------------------------------------------------------------
(* script.js : configuration *)

CONFIG ==
    [colors |->
        [fur  |-> [brown |-> 9127187, beige |-> 13808780,
                   white |-> 16119260, pink |-> 16758465],
         eyes |-> [black |-> 0, blue |-> 4286945,
                   brown |-> 6636321, green |-> 2263842]],
     defaultState |->
        [form |-> "sitting", furColor |-> "brown", eyeColor |-> "black",
         accessories |-> [hat |-> FALSE, bow |-> FALSE, scarf |-> FALSE]]]

Forms == {"sitting", "standing", "compact"}
AccessoryNames == DOMAIN CONFIG.defaultState.accessories
Assets == Forms \cup AccessoryNames

\* the colour ids carried by the [data-color] / [data-eye] buttons pressed
FurOrder == <<"white", "brown", "beige", "pink">>
EyeOrder == <<"blue", "black", "brown", "green">>
FurButtons == {FurOrder[i] : i \in 1..(IF ColorButtons < 4 THEN ColorButtons ELSE 4)}
EyeButtons == {EyeOrder[i] : i \in 1..(IF ColorButtons < 4 THEN ColorButtons ELSE 4)}

\* arguments tried on the SceneManager operations: the ids above and one
\* id that is a key of no table
FormInputs == Forms \cup {"lying"}
FurInputs == DOMAIN CONFIG.colors.fur \cup {"purple"}
EyeInputs == DOMAIN CONFIG.colors.eyes \cup {"purple"}

\* new THREE.Color(table[colorName]): a missing key gives undefined, and
\* the Color constructor leaves its initial white (r = g = b = 1) in place
NewColor(table, colorName) ==
    IF colorName \in DOMAIN table THEN table[colorName] ELSE 16777215

----------------------------------------------------------------------------
(* script.js : the model files *)

Meshes == Forms \X (1..MeshesPerModel)

\* the material objects a bear file defines, by name; a mesh of the file
\* refers to one of them, and several meshes may refer to the same one
TemplateNames == <<"EyeBlack", "Fur", "Fur">>
Templates == 1..Len(TemplateNames)
\* the colours the file gives them (0x101010, 0x808080, 0x404040), none of
\* them a value of CONFIG.colors
TemplateColor == <<1052688, 8421504, 4210752>>

Layouts == [1..MeshesPerModel -> Templates]
DefaultLayout == [i \in 1..MeshesPerModel |-> IF i = 1 THEN 1 ELSE 2]

NoMaterial == [name |-> "", color |-> 0,
               userData |-> [isCloned |-> FALSE, isEyeCloned |-> FALSE]]

\* 2 / maxDim of each accessory file, the scale loadModel gives it
NormalizedScale == [hat |-> 80, bow |-> 50, scarf |-> 125]

NoTransform == [x |-> 0, y |-> 0, z |-> 0, scale |-> 0]

----------------------------------------------------------------------------
(* script.js : BearState *)

\* reset() writing the default values into the accessories object the
\* state already has, key by key
BearState_reset_inPlace(st) ==
    [st EXCEPT !.currentForm = CONFIG.defaultState.form,
               !.furColor = CONFIG.defaultState.furColor,
               !.eyeColor = CONFIG.defaultState.eyeColor,
               !.accessories = [k \in DOMAIN st.accessories |->
                                   IF k \in DOMAIN CONFIG.defaultState.accessories
                                   THEN CONFIG.defaultState.accessories[k]
                                   ELSE st.accessories[k]]]

\* reset(): the fields get what CONFIG.defaultState holds when it runs;
\* bearState.accessories is the content of the object the field refers to
BearState_reset(st) ==
    [st EXCEPT !.currentForm = defaultState.form,
               !.furColor = defaultState.furColor,
               !.eyeColor = defaultState.eyeColor,
               !.accessories = defaultState.accessories]

\* the accessories objects: the one nested in CONFIG.defaultState and the
\* one the last spread in the constructor or in reset() created, to which
\* only bearState refers
ObjectRefs == {"CONFIG.defaultState.accessories", "copy"}

\* an object literal without the spread: the expression is the object itself
Spread_sameObject(ref) == ref

\* { ...obj } : a new object with the own properties of obj
Spread(ref) == "copy"

BearState_new ==
    [currentForm |-> CONFIG.defaultState.form,
     furColor |-> CONFIG.defaultState.furColor,
     eyeColor |-> CONFIG.defaultState.eyeColor,
     accessories |-> CONFIG.defaultState.accessories]

----------------------------------------------------------------------------
(* script.js : SceneManager *)

\* the state after the constructor; the files' contents (layout) are fixed
\* from the start and enter the scene when their load completes
SceneManager_new(layout) ==
    [bearModels   |-> [f \in Forms |-> FALSE],
     accessories  |-> [a \in AccessoryNames |-> FALSE],
     currentBear  |-> "null",
     visible      |-> [a \in Assets |-> FALSE],
     transform    |-> [a \in AccessoryNames |-> NoTransform],
     meshMaterial |-> [m \in Meshes |-> layout[m[2]]],
     templates    |-> [t \in Forms \X Templates |->
                          [name |-> TemplateNames[t[2]],
                           color |-> TemplateColor[t[2]],
                           userData |-> [isCloned |-> FALSE, isEyeCloned |-> FALSE]]],
     own          |-> [m \in Meshes |-> NoMaterial]]

\* child.material : 0 in meshMaterial is the mesh's own (cloned) material
MaterialOf(sm, m) ==
    IF sm.meshMaterial[m] = 0 THEN sm.own[m]
    ELSE sm.templates[<<m[1], sm.meshMaterial[m]>>]

\* child.material.color.copy(color) : writes the object the mesh refers to
SetColor(sm, m, color) ==
    IF sm.meshMaterial[m] = 0
    THEN [sm EXCEPT !.own[m].color = color]
    ELSE [sm EXCEPT !.templates[<<m[1], sm.meshMaterial[m]>>].color = color]

\* child.material = child.material.clone(); child.material.userData[flag] = true
\* (clone copies name, colour and userData; the old object keeps its flags)
CloneMaterial(sm, m, flag) ==
    [sm EXCEPT !.own[m] = [MaterialOf(sm, m) EXCEPT !.userData[flag] = TRUE],
               !.meshMaterial[m] = 0]

repositionAccessories_positions ==
    [sitting  |-> [hat |-> [y |-> 170, scale |-> 100],
                   bow |-> [x |-> 30, y |-> 160, scale |-> 80],
                   scarf |-> [y |-> 100, scale |-> 100]],
     standing |-> [hat |-> [y |-> 200, scale |-> 100],
                   bow |-> [x |-> 28, y |-> 190, scale |-> 80],
                   scarf |-> [y |-> 150, scale |-> 100]],
     compact  |-> [hat |-> [y |-> 140, scale |-> 90],
                   bow |-> [x |-> 30, y |-> 130, scale |-> 70],
                   scarf |-> [y |-> 80, scale |-> 90]]]

repositionAccessories(sm, formName) ==
    IF formName \notin DOMAIN repositionAccessories_positions THEN sm
    ELSE
    LET pos == repositionAccessories_positions[formName]
        s1 == IF sm.accessories["hat"]
              THEN [sm EXCEPT !.transform["hat"].y = pos.hat.y,
                              !.transform["hat"].scale = pos.hat.scale]
              ELSE sm
        s2 == IF s1.accessories["bow"]
              THEN [s1 EXCEPT !.transform["bow"] =
                        [x |-> pos.bow.x, y |-> pos.bow.y, z |-> 0,
                         scale |-> pos.bow.scale]]
              ELSE s1
        s3 == IF s2.accessories["scarf"]
              THEN [s2 EXCEPT !.transform["scarf"].y = pos.scarf.y,
                              !.transform["scarf"].scale = pos.scarf.scale]
              ELSE s2
    IN s3

\* this.bearModels[formName] is truthy
Registered(sm, formName) == formName \in Forms /\ sm.bearModels[formName]

\* switchBearForm hiding the bear that was current after showing the new one
switchBearForm_hideAfter(sm, formName) ==
    IF Registered(sm, formName)
    THEN LET s1 == repositionAccessories(
                       [sm EXCEPT !.visible[formName] = TRUE,
                                  !.currentBear = formName], formName)
         IN IF sm.currentBear # "null"
            THEN [s1 EXCEPT !.visible[sm.currentBear] = FALSE]
            ELSE s1
    ELSE sm

switchBearForm(sm, formName) ==
    LET s1 == IF sm.currentBear # "null"
              THEN [sm EXCEPT !.visible[sm.currentBear] = FALSE]
              ELSE sm
    IN IF Registered(s1, formName)
       THEN repositionAccessories(
                [s1 EXCEPT !.visible[formName] = TRUE,
                           !.currentBear = formName], formName)
       ELSE s1

\* updateFurColor_mesh without the test of the material name
updateFurColor_mesh_noExemption(sm, m, color) ==
    LET s1 == IF ~MaterialOf(sm, m).userData.isCloned
              THEN CloneMaterial(sm, m, "isCloned")
              ELSE sm
    IN SetColor(s1, m, color)

\* updateFurColor_mesh writing the colour to the material the mesh has
\* before it puts the clone, taken before the write, in its place
updateFurColor_mesh_colourBeforeClone(sm, m, color) ==
    IF MaterialOf(sm, m).name # "EyeBlack"
    THEN IF ~MaterialOf(sm, m).userData.isCloned
         THEN [SetColor(sm, m, color) EXCEPT
                  !.own[m] = [MaterialOf(sm, m) EXCEPT !.userData.isCloned = TRUE],
                  !.meshMaterial[m] = 0]
         ELSE SetColor(sm, m, color)
    ELSE sm

\* the body of the traverse callback of updateFurColor for one mesh
updateFurColor_mesh(sm, m, color) ==
    IF MaterialOf(sm, m).name # "EyeBlack"
    THEN LET s1 == IF ~MaterialOf(sm, m).userData.isCloned
                   THEN CloneMaterial(sm, m, "isCloned")
                   ELSE sm
         IN SetColor(s1, m, color)
    ELSE sm

\* the body of the traverse callback of updateEyeColor for one mesh
updateEyeColor_mesh(sm, m, color) ==
    IF MaterialOf(sm, m).name = "EyeBlack"
    THEN LET s1 == IF ~MaterialOf(sm, m).userData.isEyeCloned
                   THEN CloneMaterial(sm, m, "isEyeCloned")
                   ELSE sm
         IN SetColor(s1, m, color)
    ELSE sm

\* currentBear.traverse(callback): the meshes of the model in file order
RECURSIVE traverseFur(_, _, _, _)
traverseFur(sm, bear, i, color) ==
    IF i > MeshesPerModel THEN sm
    ELSE traverseFur(updateFurColor_mesh(sm, <<bear, i>>, color), bear, i + 1, color)

RECURSIVE traverseEye(_, _, _, _)
traverseEye(sm, bear, i, color) ==
    IF i > MeshesPerModel THEN sm
    ELSE traverseEye(updateEyeColor_mesh(sm, <<bear, i>>, color), bear, i + 1, color)

updateFurColor(sm, colorName) ==
    IF sm.currentBear = "null" THEN sm
    ELSE traverseFur(sm, sm.currentBear, 1, NewColor(CONFIG.colors.fur, colorName))

updateEyeColor(sm, colorName) ==
    IF sm.currentBear = "null" THEN sm
    ELSE traverseEye(sm, sm.currentBear, 1, NewColor(CONFIG.colors.eyes, colorName))

\* toggleAccessory treating the accessories as one group of which one
\* member is shown at a time
toggleAccessory_exclusive(sm, accessoryName, visible) ==
    IF accessoryName \in AccessoryNames /\ sm.accessories[accessoryName]
    THEN [sm EXCEPT !.visible = [a \in Assets |->
                        IF a = accessoryName THEN visible
                        ELSE IF a \in AccessoryNames /\ visible THEN FALSE
                        ELSE sm.visible[a]]]
    ELSE sm

\* toggleAccessory without the test that the accessory is registered
toggleAccessory_unguarded(sm, accessoryName, visible) ==
    IF accessoryName \in AccessoryNames
    THEN [sm EXCEPT !.visible[accessoryName] = visible]
    ELSE sm

toggleAccessory(sm, accessoryName, visible) ==
    IF accessoryName \in AccessoryNames /\ sm.accessories[accessoryName]
    THEN [sm EXCEPT !.visible[accessoryName] = visible]
    ELSE sm

\* the success callback of loadModel up to the call of callback(model):
\* the model is hidden, centred and scaled
loadModel_onLoad(sm, name) ==
    IF name \in AccessoryNames
    THEN [sm EXCEPT !.visible[name] = FALSE,
                    !.transform[name] = [x |-> 0, y |-> 0, z |-> 0,
                                         scale |-> NormalizedScale[name]]]
    ELSE [sm EXCEPT !.visible[name] = FALSE]

\* loadAssets' callbacks with sitting shown through switchBearForm, which
\* also repositions the accessories registered so far
loadAssets_callback_viaSwitch(sm, st, name) ==
    IF name = "sitting"
    THEN updateEyeColor(
            updateFurColor(
                switchBearForm([sm EXCEPT !.bearModels["sitting"] = TRUE], "sitting"),
                st.furColor),
            st.eyeColor)
    ELSE IF name \in Forms
    THEN [sm EXCEPT !.bearModels[name] = TRUE]
    ELSE IF name = "hat"
    THEN [sm EXCEPT !.accessories["hat"] = TRUE, !.visible["hat"] = FALSE,
                    !.transform["hat"].x = 0, !.transform["hat"].y = 170,
                    !.transform["hat"].z = 0]
    ELSE IF name = "bow"
    THEN [sm EXCEPT !.accessories["bow"] = TRUE, !.visible["bow"] = FALSE,
                    !.transform["bow"] = [x |-> 30, y |-> 160, z |-> 0, scale |-> 80]]
    ELSE [sm EXCEPT !.accessories["scarf"] = TRUE, !.visible["scarf"] = FALSE,
                    !.transform["scarf"].x = 0, !.transform["scarf"].y = 100,
                    !.transform["scarf"].z = 0]

\* the callbacks loadAssets passes to loadModel
loadAssets_callback(sm, st, name) ==
    IF name = "sitting"
    THEN updateEyeColor(
            updateFurColor(
                [sm EXCEPT !.bearModels["sitting"] = TRUE,
                           !.currentBear = "sitting",
                           !.visible["sitting"] = TRUE],
                st.furColor),
            st.eyeColor)
    ELSE IF name \in Forms
    THEN [sm EXCEPT !.bearModels[name] = TRUE]
    ELSE IF name = "hat"
    THEN [sm EXCEPT !.accessories["hat"] = TRUE, !.visible["hat"] = FALSE,
                    !.transform["hat"].x = 0, !.transform["hat"].y = 170,
                    !.transform["hat"].z = 0]
    ELSE IF name = "bow"
    THEN [sm EXCEPT !.accessories["bow"] = TRUE, !.visible["bow"] = FALSE,
                    !.transform["bow"] = [x |-> 30, y |-> 160, z |-> 0, scale |-> 80]]
    ELSE [sm EXCEPT !.accessories["scarf"] = TRUE, !.visible["scarf"] = FALSE,
                    !.transform["scarf"].x = 0, !.transform["scarf"].y = 100,
                    !.transform["scarf"].z = 0]

----------------------------------------------------------------------------
(* script.js : UIController.resetAll, the scene part *)

RECURSIVE hideAccessories(_, _)
hideAccessories(sm, names) ==
    IF names = {} THEN sm
    ELSE LET a == CHOOSE x \in names : TRUE
         IN hideAccessories(toggleAccessory(sm, a, FALSE), names \ {a})

resetAll_scene(sm) ==
    hideAccessories(
        updateEyeColor(
            updateFurColor(
                switchBearForm(sm, defaultState.form),
                defaultState.furColor),
            defaultState.eyeColor),
        DOMAIN defaultState.accessories)

----------------------------------------------------------------------------
(* script.js : handlers *)

\* the values of data-accessory the checkboxes of a page may carry: the
\* accessories of CONFIG and one that CONFIG does not know
Checkboxes == AccessoryNames \cup {"glasses"}

\* obj[key] = value on a JavaScript object: the key is added when absent
SetKey(obj, key, value) ==
    [k \in DOMAIN obj \cup {key} |-> IF k = key THEN value ELSE obj[k]]

InitScript(layouts) ==
    /\ \E layout \in layouts : sceneManager = SceneManager_new(layout)
    /\ bearState = BearState_new
    /\ checked = [a \in Checkboxes |-> FALSE]
    /\ loadState = [a \in Assets |-> "loading"]
    /\ defaultState = CONFIG.defaultState
    /\ accessoriesRef = Spread("CONFIG.defaultState.accessories")

\* a load succeeds: loadModel's success callback, then loadAssets' callback
LoadComplete(name) ==
    /\ loadState[name] = "loading"
    /\ loadState' = [loadState EXCEPT ![name] = "loaded"]
    /\ sceneManager' = loadAssets_callback(loadModel_onLoad(sceneManager, name),
                                           bearState, name)
    /\ UNCHANGED <<bearState, checked, defaultState, accessoriesRef, varsPart>>

\* a load fails: the error callback only logs
LoadError(name) ==
    /\ loadState[name] = "loading"
    /\ loadState' = [loadState EXCEPT ![name] = "failed"]
    /\ UNCHANGED <<sceneManager, bearState, checked, defaultState, accessoriesRef,
                   varsPart>>

\* click on a [data-form] button
ClickForm(form) ==
    /\ bearState' = [bearState EXCEPT !.currentForm = form]
    /\ sceneManager' = switchBearForm(sceneManager, form)
    /\ UNCHANGED <<checked, loadState, defaultState, accessoriesRef, varsPart>>

\* click on a [data-color] button
ClickColor(color) ==
    /\ bearState' = [bearState EXCEPT !.furColor = color]
    /\ sceneManager' = updateFurColor(sceneManager, color)
    /\ UNCHANGED <<checked, loadState, defaultState, accessoriesRef, varsPart>>

\* click on a [data-eye] button
ClickEye(color) ==
    /\ bearState' = [bearState EXCEPT !.eyeColor = color]
    /\ sceneManager' = updateEyeColor(sceneManager, color)
    /\ UNCHANGED <<checked, loadState, defaultState, accessoriesRef, varsPart>>

\* change of a [data-accessory] checkbox: the user flips it, the listener
\* reads checkbox.checked
ChangeAccessory(accessory) ==
    /\ checked' = [checked EXCEPT ![accessory] = ~checked[accessory]]
    /\ bearState' = [bearState EXCEPT
                        !.accessories = SetKey(@, accessory, ~checked[accessory])]
    /\ defaultState' =
          IF accessoriesRef = "CONFIG.defaultState.accessories"
          THEN [defaultState EXCEPT
                   !.accessories = SetKey(@, accessory, ~checked[accessory])]
          ELSE defaultState
    /\ sceneManager' = toggleAccessory(sceneManager, accessory, ~checked[accessory])
    /\ UNCHANGED <<loadState, accessoriesRef, varsPart>>

\* click on #resetAll
ResetAll ==
    /\ bearState' = BearState_reset(bearState)
    /\ checked' = [a \in Checkboxes |-> FALSE]
    /\ accessoriesRef' = Spread("CONFIG.defaultState.accessories")
    /\ sceneManager' = resetAll_scene(sceneManager)
    /\ UNCHANGED <<loadState, defaultState, varsPart>>

----------------------------------------------------------------------------
(* part_000 : configuration *)

CONFIG_part ==
    [textures |-> {"brown", "panda", "pink", "blue"},
     defaults |-> [skin |-> "brown", eyeColor |-> 0, noseColor |-> 0,
                   accessoryColor |-> 16777215, hat |-> "none"]]

Loads == {"bear", "hat", "beanie", "scarf"}
AccessoryNames_part == {"hat", "beanie", "scarf"}
HatValues == {"hat", "beanie", "none"}

\* the values carried by the buttons pressed: [data-skin], [data-color]
\* of the [data-part] buttons, [data-acc-color]
SkinButtons == {"brown", "panda"}
PartColorButtons == {0, 9127187}
AccColorButtons == {16777215, 16711680}

\* const state = { ... }
state_new ==
    [skin |-> CONFIG_part.defaults.skin,
     eyeColor |-> CONFIG_part.defaults.eyeColor,
     noseColor |-> CONFIG_part.defaults.noseColor,
     currentHat |-> CONFIG_part.defaults.hat,
     scarfVisible |-> FALSE,
     currentAccessoryColor |-> CONFIG_part.defaults.accessoryColor]

----------------------------------------------------------------------------
(* part_000 : the bear file *)

\* String.prototype.toLowerCase on the letters the mesh names use
UpperToLower ==
    [A |-> "a", B |-> "b", D |-> "d", E |-> "e", H |-> "h", L |-> "l",
     M |-> "m", N |-> "n", O |-> "o", R |-> "r", S |-> "s", Y |-> "y"]

toLowerCase(s) ==
    [i \in 1..Len(s) |-> IF s[i] \in DOMAIN UpperToLower THEN UpperToLower[s[i]] ELSE s[i]]

\* String.prototype.includes
includes(s, t) ==
    \E i \in 0..(Len(s) - Len(t)) : SubSeq(s, i + 1, i + Len(t)) = t

\* a bear file: its meshes in traversal order, each with its name, the
\* vertex count of its geometry and the material object of the file it uses
DefaultBearFile ==
    <<[name |-> <<"B", "o", "d", "y">>, count |-> 900, material |-> 1],
      [name |-> <<"E", "y", "e", "_", "L">>, count |-> 40, material |-> 2],
      [name |-> <<"E", "y", "e", "_", "R">>, count |-> 40, material |-> 2],
      [name |-> <<"N", "o", "s", "e">>, count |-> 30, material |-> 2],
      [name |-> <<"E", "a", "r", "s">>, count |-> 120, material |-> 1]>>

\* the material objects of a bear file: texture map and colour
BearTemplates ==
    <<[map |-> "file", color |-> 16777215,
       userData |-> [isCloned |-> FALSE, isEyeCloned |-> FALSE, isNoseCloned |-> FALSE]],
      [map |-> "none", color |-> 1052688,
       userData |-> [isCloned |-> FALSE, isEyeCloned |-> FALSE, isNoseCloned |-> FALSE]]>>

\* the meshes a bear file may be made of: name and vertex count; names
\* need not be unique in a file
MeshKinds ==
    {[name |-> <<"B", "o", "d", "y">>, count |-> 900],
     [name |-> <<"E", "a", "r", "s">>, count |-> 120],
     [name |-> <<"E", "y", "e", "_", "L">>, count |-> 40],
     [name |-> <<"N", "o", "s", "e">>, count |-> 30]}

\* every file of MeshesPerBear such meshes, each mesh on either material
\* object of the file
BearFiles ==
    {[i \in 1..MeshesPerBear |->
         [name |-> kinds[i].name, count |-> kinds[i].count, material |-> mats[i]]] :
       kinds \in [1..MeshesPerBear -> MeshKinds],
       mats \in [1..MeshesPerBear -> 1..2]}

\* positions of loadAccessory: hundredths, rotations in degrees
loadAccessory_positions ==
    [hat    |-> [x |-> 0, y |-> 196, z |-> -10, scale |-> 100,
                 rotX |-> 0, rotY |-> 0, rotZ |-> 0],
     beanie |-> [x |-> 22, y |-> 175, z |-> -10, scale |-> 100,
                 rotX |-> 0, rotY |-> 0, rotZ |-> 0],
     scarf  |-> [x |-> 0, y |-> 115, z |-> 12, scale |-> 85,
                 rotX |-> 0, rotY |-> 180, rotZ |-> 0]]

----------------------------------------------------------------------------
(* part_000 : module state *)

\* the bindings after the module body has run: nothing loaded, every
\* button and input disabled, the radio "none" checked
page_new(file) ==
    [bearFile     |-> file,
     bear         |-> FALSE,
     bearParts    |-> [body |-> 0, eyes |-> <<>>, nose |-> 0],
     meshMaterial |-> [i \in 1..Len(file) |-> file[i].material],
     templates    |-> BearTemplates,
     own          |-> [i \in 1..Len(file) |-> BearTemplates[1]],
     accessories  |-> [a \in AccessoryNames_part |-> FALSE],
     visible      |-> [a \in AccessoryNames_part |-> FALSE],
     meshColor    |-> [a \in AccessoryNames_part |->
                          [i \in 1..MeshesPerAccessory |-> 0]],
     transform    |-> [a \in AccessoryNames_part |->
                          [x |-> 0, y |-> 0, z |-> 0, scale |-> 0,
                           rotX |-> 0, rotY |-> 0, rotZ |-> 0]],
     loadingStatus |-> [l \in Loads |-> FALSE],
     state        |-> state_new,
     disabled     |-> TRUE,
     indicatorHidden |-> FALSE,
     colorSection |-> "none",
     hatRadio     |-> "none",
     scarfChecked |-> FALSE]

\* child.material of bear mesh i: 0 is the mesh's own (cloned) material
bearMaterial(pg, i) ==
    IF pg.meshMaterial[i] = 0 THEN pg.own[i] ELSE pg.templates[pg.meshMaterial[i]]

\* child.material = child.material.clone(); child.material.userData[flag] = true
cloneBearMaterial(pg, i, flag) ==
    [pg EXCEPT !.own[i] = [bearMaterial(pg, i) EXCEPT !.userData[flag] = TRUE],
               !.meshMaterial[i] = 0]

\* a write to one field of the material object mesh i refers to
setBearMaterial(pg, i, field, value) ==
    IF pg.meshMaterial[i] = 0
    THEN [pg EXCEPT !.own[i][field] = value]
    ELSE [pg EXCEPT !.templates[pg.meshMaterial[i]][field] = value]

\* checkAllLoaded_allLoaded with some() in place of every()
checkAllLoaded_someLoaded(pg) == \E l \in Loads : pg.loadingStatus[l] = TRUE

checkAllLoaded_allLoaded(pg) == \A l \in Loads : pg.loadingStatus[l] = TRUE

checkAllLoaded(pg) ==
    IF checkAllLoaded_allLoaded(pg)
    THEN [pg EXCEPT !.disabled = FALSE, !.indicatorHidden = TRUE]
    ELSE pg

\* bearParts.eyes.includes(child)
isEye(pg, i) == \E k \in 1..Len(pg.bearParts.eyes) : pg.bearParts.eyes[k] = i

updateBearSkin_mesh(pg, i, skinName) ==
    IF ~isEye(pg, i) /\ pg.bearParts.nose # i
    THEN LET p1 == IF ~bearMaterial(pg, i).userData.isCloned
                   THEN cloneBearMaterial(pg, i, "isCloned")
                   ELSE pg
         IN setBearMaterial(p1, i, "map", skinName)
    ELSE pg

RECURSIVE traverseSkin(_, _, _)
traverseSkin(pg, i, skinName) ==
    IF i > Len(pg.bearFile) THEN pg
    ELSE traverseSkin(updateBearSkin_mesh(pg, i, skinName), i + 1, skinName)

updateBearSkin(pg, skinName) ==
    IF skinName \notin CONFIG_part.textures \/ ~pg.bear THEN pg
    ELSE [traverseSkin(pg, 1, skinName) EXCEPT !.state.skin = skinName]

\* updatePartColor's write without the clone on first write
updatePartColor_mesh_inPlace(pg, i, flag, colorHex) ==
    setBearMaterial(pg, i, "color", colorHex)

updatePartColor_mesh(pg, i, flag, colorHex) ==
    LET p1 == IF ~bearMaterial(pg, i).userData[flag]
              THEN cloneBearMaterial(pg, i, flag)
              ELSE pg
    IN setBearMaterial(p1, i, "color", colorHex)

RECURSIVE forEachEye(_, _, _)
forEachEye(pg, k, colorHex) ==
    IF k > Len(pg.bearParts.eyes) THEN pg
    ELSE forEachEye(updatePartColor_mesh(pg, pg.bearParts.eyes[k], "isEyeCloned", colorHex),
                    k + 1, colorHex)

updatePartColor(pg, part, colorHex) ==
    IF part = "eyes"
    THEN IF Len(pg.bearParts.eyes) = 0 THEN pg
         ELSE [forEachEye(pg, 1, colorHex) EXCEPT !.state.eyeColor = colorHex]
    ELSE IF part = "nose"
    THEN IF pg.bearParts.nose = 0 THEN pg
         ELSE [updatePartColor_mesh(pg, pg.bearParts.nose, "isNoseCloned", colorHex)
                  EXCEPT !.state.noseColor = colorHex]
    ELSE pg

updateAccessoryColor(pg, name, colorHex) ==
    IF name \notin AccessoryNames_part \/ ~pg.accessories[name] THEN pg
    ELSE [pg EXCEPT !.meshColor[name] = [i \in 1..MeshesPerAccessory |-> colorHex]]

updateAccessoryColorSection(pg) ==
    [pg EXCEPT !.colorSection =
        IF pg.state.currentHat # "none" \/ pg.state.scarfVisible
        THEN "block" ELSE "none"]

\* updateHat_hideAll hiding nothing
updateHat_hideNone(pg) == pg

\* the first two statements of updateHat: hide all hats
updateHat_hideAll(pg) ==
    LET p1 == IF pg.accessories["hat"] THEN [pg EXCEPT !.visible["hat"] = FALSE] ELSE pg
    IN IF p1.accessories["beanie"] THEN [p1 EXCEPT !.visible["beanie"] = FALSE] ELSE p1

updateHat(pg, hatType) ==
    LET p1 == updateHat_hideAll(pg)
        p2 == IF hatType # "none" /\ hatType \in AccessoryNames_part /\ p1.accessories[hatType]
              THEN updateAccessoryColor([p1 EXCEPT !.visible[hatType] = TRUE],
                                        hatType, p1.state.currentAccessoryColor)
              ELSE p1
    IN updateAccessoryColorSection([p2 EXCEPT !.state.currentHat = hatType])

toggleScarf(pg, visible) ==
    LET p1 == IF pg.accessories["scarf"]
              THEN LET p0 == [pg EXCEPT !.visible["scarf"] = visible]
                   IN IF visible
                      THEN updateAccessoryColor(p0, "scarf", p0.state.currentAccessoryColor)
                      ELSE p0
              ELSE pg
    IN updateAccessoryColorSection([p1 EXCEPT !.state.scarfVisible = visible])

\* updateCurrentAccessoryColor without its second if: the scarf is left out
updateCurrentAccessoryColor_hatOnly(pg, colorHex) ==
    LET p1 == [pg EXCEPT !.state.currentAccessoryColor = colorHex]
    IN IF p1.state.currentHat # "none"
       THEN updateAccessoryColor(p1, p1.state.currentHat, colorHex)
       ELSE p1

updateCurrentAccessoryColor(pg, colorHex) ==
    LET p1 == [pg EXCEPT !.state.currentAccessoryColor = colorHex]
        p2 == IF p1.state.currentHat # "none"
              THEN updateAccessoryColor(p1, p1.state.currentHat, colorHex)
              ELSE p1
    IN IF p2.state.scarfVisible
       THEN updateAccessoryColor(p2, "scarf", colorHex)
       ELSE p2

resetAll(pg) ==
    LET d == CONFIG_part.defaults
        p1 == [pg EXCEPT !.state = [skin |-> d.skin, eyeColor |-> d.eyeColor,
                                    noseColor |-> d.noseColor, currentHat |-> d.hat,
                                    scarfVisible |-> FALSE,
                                    currentAccessoryColor |-> d.accessoryColor]]
        p2 == updateBearSkin(p1, d.skin)
        p3 == updatePartColor(p2, "eyes", d.eyeColor)
        p4 == updatePartColor(p3, "nose", d.noseColor)
        p5 == updateHat(p4, "none")
        p6 == toggleScarf(p5, FALSE)
        p7 == updateCurrentAccessoryColor(p6, d.accessoryColor)
    IN updateAccessoryColorSection(
          [p7 EXCEPT !.hatRadio = "none", !.scarfChecked = FALSE])

\* the traverse callback of loadBear for mesh i: find the bear parts
loadBear_classify(parts, file, i) ==
    LET name == toLowerCase(file[i].name)
    IN IF includes(name, <<"n", "o", "s", "e">>)
       THEN [parts EXCEPT !.nose = i]
       ELSE IF includes(name, <<"e", "y", "e">>)
       THEN [parts EXCEPT !.eyes = Append(parts.eyes, i)]
       ELSE IF parts.body = 0 \/ file[i].count > file[parts.body].count
       THEN [parts EXCEPT !.body = i]
       ELSE parts

RECURSIVE traverseParts(_, _, _)
traverseParts(parts, file, i) ==
    IF i > Len(file) THEN parts
    ELSE traverseParts(loadBear_classify(parts, file, i), file, i + 1)

\* the success callback of loadBear
loadBear_onLoad(pg) ==
    LET p1 == [pg EXCEPT !.bear = TRUE,
                         !.bearParts = traverseParts(pg.bearParts, pg.bearFile, 1)]
        p2 == updateBearSkin(p1, p1.state.skin)
        p3 == updatePartColor(p2, "eyes", p2.state.eyeColor)
        p4 == updatePartColor(p3, "nose", p3.state.noseColor)
    IN checkAllLoaded([p4 EXCEPT !.loadingStatus["bear"] = TRUE])

\* the success callback of loadAccessory
loadAccessory_onLoad(pg, name) ==
    checkAllLoaded(
        [pg EXCEPT !.transform[name] = loadAccessory_positions[name],
                   !.meshColor[name] = [i \in 1..MeshesPerAccessory |->
                                           CONFIG_part.defaults.accessoryColor],
                   !.visible[name] = FALSE,
                   !.accessories[name] = TRUE,
                   !.loadingStatus[name] = TRUE])

\* the setTimeout callback without its body: controls stay as
\* checkAllLoaded leaves them
fallback_checkOnly(pg) == checkAllLoaded(pg)

\* the setTimeout callback
fallback(pg) ==
    IF ~checkAllLoaded_allLoaded(pg)
    THEN [pg EXCEPT !.disabled = FALSE, !.indicatorHidden = TRUE]
    ELSE checkAllLoaded(pg)

----------------------------------------------------------------------------
(* part_000 : handlers *)

InitPart(files) ==
    /\ \E file \in files : page = page_new(file)
    /\ requests = [l \in Loads |-> "loading"]
    /\ timer = "pending"

LoadBearComplete ==
    /\ requests["bear"] = "loading"
    /\ requests' = [requests EXCEPT !["bear"] = "loaded"]
    /\ page' = loadBear_onLoad(page)
    /\ UNCHANGED <<timer, varsScript>>

LoadAccessoryComplete(name) ==
    /\ requests[name] = "loading"
    /\ requests' = [requests EXCEPT ![name] = "loaded"]
    /\ page' = loadAccessory_onLoad(page, name)
    /\ UNCHANGED <<timer, varsScript>>

\* the error callbacks of loadBear and loadAccessory only log
LoadFailed(name) ==
    /\ requests[name] = "loading"
    /\ requests' = [requests EXCEPT ![name] = "failed"]
    /\ UNCHANGED <<page, timer, varsScript>>

FallbackTimer ==
    /\ timer = "pending"
    /\ timer' = "fired"
    /\ page' = fallback(page)
    /\ UNCHANGED <<requests, varsScript>>

\* a disabled button or input dispatches no click or change event
ClickSkin(skin) ==
    /\ ~page.disabled
    /\ page' = updateBearSkin(page, skin)
    /\ UNCHANGED <<requests, timer, varsScript>>

ClickPart(part, color) ==
    /\ ~page.disabled
    /\ page' = updatePartColor(page, part, color)
    /\ UNCHANGED <<requests, timer, varsScript>>

\* the user checks another radio of the group "hat"
ChangeHat(value) ==
    /\ ~page.disabled
    /\ value # page.hatRadio
    /\ page' = updateHat([page EXCEPT !.hatRadio = value], value)
    /\ UNCHANGED <<requests, timer, varsScript>>

\* the user flips the checkbox #acc-scarf
ChangeScarf ==
    /\ ~page.disabled
    /\ page' = toggleScarf([page EXCEPT !.scarfChecked = ~page.scarfChecked],
                           ~page.scarfChecked)
    /\ UNCHANGED <<requests, timer, varsScript>>

ClickAccColor(color) ==
    /\ ~page.disabled
    /\ page' = updateCurrentAccessoryColor(page, color)
    /\ UNCHANGED <<requests, timer, varsScript>>

ClickResetAll ==
    /\ ~page.disabled
    /\ page' = resetAll(page)
    /\ UNCHANGED <<requests, timer, varsScript>>

----------------------------------------------------------------------------
(* Specifications of script.js *)

\* the scene: all six loads (success or failure), the form buttons, the
\* accessory checkboxes and reset-all, for one layout of the bear files
InitScene == InitScript({DefaultLayout}) /\ InitPart({DefaultBearFile})

NextScene ==
    \/ \E name \in Assets : LoadComplete(name)
    \/ \E name \in Assets : LoadError(name)
    \/ \E form \in Forms : ClickForm(form)
    \/ \E accessory \in AccessoryNames : ChangeAccessory(accessory)
    \/ ResetAll

SpecScene == InitScene /\ [][NextScene]_vars

\* recolouring: the three bear loads, the form, fur and eye buttons and
\* reset-all, for every way the meshes of a bear file share its materials
InitColor == InitScript(Layouts) /\ InitPart({DefaultBearFile})

NextColor ==
    \/ \E name \in Forms : LoadComplete(name)
    \/ \E name \in Forms : LoadError(name)
    \/ \E form \in Forms : ClickForm(form)
    \/ \E color \in FurButtons : ClickColor(color)
    \/ \E color \in EyeButtons : ClickEye(color)
    \/ ResetAll

SpecColor == InitColor /\ [][NextColor]_vars

\* recolouring of one variant styled by its load callback (sitting) and one
\* that is not (standing; compact is loaded by the same callback), for
\* every way the meshes of a bear file share its materials
RecolorForms == {"sitting", "standing"}

NextRecolor ==
    \/ \E name \in RecolorForms : LoadComplete(name)
    \/ \E form \in Forms : ClickForm(form)
    \/ \E color \in FurButtons : ClickColor(color)
    \/ \E color \in EyeButtons : ClickEye(color)
    \/ ResetAll

SpecRecolor == InitColor /\ [][NextRecolor]_vars

\* the loads alone, each succeeding or failing, in every order, with no
\* UI event, for every way the meshes of a bear file share its materials
NextLoads ==
    \/ \E name \in Assets : LoadComplete(name)
    \/ \E name \in Assets : LoadError(name)

SpecLoads == InitColor /\ [][NextLoads]_vars

\* the configuration state: every control with every value a page may
\* give it, known to CONFIG or not, and reset-all; nothing is loaded
NextState ==
    \/ \E form \in FormInputs : ClickForm(form)
    \/ \E color \in FurInputs : ClickColor(color)
    \/ \E color \in EyeInputs : ClickEye(color)
    \/ \E accessory \in Checkboxes : ChangeAccessory(accessory)
    \/ ResetAll

SpecState == InitScene /\ [][NextState]_vars

----------------------------------------------------------------------------
(* Specifications of part_000 *)

\* accessories: the four loads (success or failure), the fallback timer,
\* the hat radios, the scarf checkbox, the accessory colours and reset-all
InitHat == InitPart({DefaultBearFile}) /\ InitScript({DefaultLayout})

UserAction ==
    \/ \E value \in HatValues : ChangeHat(value)
    \/ ChangeScarf
    \/ \E color \in AccColorButtons : ClickAccColor(color)
    \/ \E skin \in SkinButtons : ClickSkin(skin)
    \/ \E part \in {"eyes", "nose"} : \E color \in PartColorButtons : ClickPart(part, color)
    \/ ClickResetAll

NextHat ==
    \/ LoadBearComplete
    \/ \E name \in AccessoryNames_part : LoadAccessoryComplete(name)
    \/ \E name \in Loads : LoadFailed(name)
    \/ FallbackTimer
    \/ UserAction

SpecHat == InitHat /\ [][NextHat]_vars

\* the timer callback runs once its delay has passed
FairSpecHat == SpecHat /\ WF_vars(FallbackTimer)

\* the bear alone: its load (success or failure), the fallback timer, the
\* skin and part-colour buttons and reset-all, for every bear file
InitBear == InitPart(BearFiles) /\ InitScript({DefaultLayout})

NextBear ==
    \/ LoadBearComplete
    \/ LoadFailed("bear")
    \/ FallbackTimer
    \/ \E skin \in SkinButtons : ClickSkin(skin)
    \/ \E part \in {"eyes", "nose"} : \E color \in PartColorButtons : ClickPart(part, color)
    \/ ClickResetAll

SpecBear == InitBear /\ [][NextBear]_vars

----------------------------------------------------------------------------
(* Specification of the repository *)

\* the two programs are two pages that never run together: a behaviour is
\* a behaviour of script.js with part_000 never started, or the reverse
ScriptNotStarted ==
    /\ sceneManager = SceneManager_new(DefaultLayout)
    /\ bearState = BearState_new
    /\ checked = [a \in Checkboxes |-> FALSE]
    /\ loadState = [a \in Assets |-> "loading"]
    /\ defaultState = CONFIG.defaultState
    /\ accessoriesRef = Spread("CONFIG.defaultState.accessories")

PartNotStarted ==
    /\ page = page_new(DefaultBearFile)
    /\ requests = [l \in Loads |-> "loading"]
    /\ timer = "pending"

NextRepo ==
    \/ PartNotStarted /\ NextScene
    \/ ScriptNotStarted /\ NextHat

SpecRepo == InitScene /\ [][NextRepo]_vars

----------------------------------------------------------------------------
(* Observations of the script.js scene *)

VisibleVariants(sm) == {f \in Forms : sm.bearModels[f] /\ sm.visible[f]}

ObservedColor(sm, m) == MaterialOf(sm, m).color

Exempt(sm, m) == MaterialOf(sm, m).name = "EyeBlack"

FurIs(sm, form, color) ==
    \A i \in 1..MeshesPerModel :
        ~Exempt(sm, <<form, i>>) => ObservedColor(sm, <<form, i>>) = color

EyesAre(sm, form, color) ==
    \A i \in 1..MeshesPerModel :
        Exempt(sm, <<form, i>>) => ObservedColor(sm, <<form, i>>) = color

AllVariantsLoaded == \A f \in Forms : loadState[f] = "loaded"

AllAssetsLoaded == \A a \in Assets : loadState[a] = "loaded"

----------------------------------------------------------------------------
(* Claims *)

\* C1: from the first state in which a registered variant is visible
\* onward, exactly one registered variant is visible after every handler
\* (never zero, never two).
C1_ExactlyOneVisible ==
    [][/\ Cardinality(VisibleVariants(sceneManager')) <= 1
       /\ VisibleVariants(sceneManager) # {}
            => Cardinality(VisibleVariants(sceneManager')) = 1]_vars

\* C2: switchBearForm with a form id that has no registered variant
\* leaves every visible flag, currentBear and every accessory transform
\* as they were.
C2_UnregisteredSwitchIsNoOp ==
    \A f \in FormInputs :
        ~Registered(sceneManager, f) =>
            LET after == switchBearForm(sceneManager, f)
            IN /\ after.visible = sceneManager.visible
               /\ after.currentBear = sceneManager.currentBear
               /\ after.transform = sceneManager.transform

\* C4: updateFurColor never changes the colour seen on a mesh whose
\* material is named EyeBlack, and updateEyeColor never changes the colour
\* seen on any other mesh, whatever materials the meshes share and
\* whatever recolours came before.
C4_RecolourRespectsExemption ==
    /\ \A c \in FurInputs :
          LET after == updateFurColor(sceneManager, c)
          IN \A m \in Meshes :
                Exempt(sceneManager, m) =>
                    ObservedColor(after, m) = ObservedColor(sceneManager, m)
    /\ \A c \in EyeInputs :
          LET after == updateEyeColor(sceneManager, c)
          IN \A m \in Meshes :
                ~Exempt(sceneManager, m) =>
                    ObservedColor(after, m) = ObservedColor(sceneManager, m)

\* C4 witness: a variant two of whose meshes shared the EyeBlack material
\* of the file has been recoloured on both channels: each mesh now has
\* its own material, the eye meshes blue and a fur mesh white.
C4_Witness ==
    \E f \in Forms : \E i, j, k \in 1..MeshesPerModel :
        /\ i # j
        /\ \A n \in {i, j, k} : sceneManager.meshMaterial[<<f, n>>] = 0
        /\ Exempt(sceneManager, <<f, i>>) /\ Exempt(sceneManager, <<f, j>>)
        /\ ~Exempt(sceneManager, <<f, k>>)
        /\ ObservedColor(sceneManager, <<f, i>>) = CONFIG.colors.eyes.blue
        /\ ObservedColor(sceneManager, <<f, j>>) = CONFIG.colors.eyes.blue
        /\ ObservedColor(sceneManager, <<f, k>>) = CONFIG.colors.fur.white

\* C5: with all variants loaded, selecting fur white while standing is
\* shown makes every non-exempt surface of standing white, and switching
\* to sitting from there shows sitting with every non-exempt surface
\* white as well.
C5_FurFollowsFormSwitch ==
    [][/\ (/\ AllVariantsLoaded
           /\ sceneManager.currentBear = "standing"
           /\ bearState.currentForm = "standing"
           /\ ClickColor("white"))
            => FurIs(sceneManager', "standing", CONFIG.colors.fur.white)
       /\ (/\ AllVariantsLoaded
           /\ sceneManager.currentBear = "standing"
           /\ bearState.currentForm = "standing"
           /\ bearState.furColor = "white"
           /\ FurIs(sceneManager, "standing", CONFIG.colors.fur.white)
           /\ ClickForm("sitting"))
            => FurIs(sceneManager', "sitting", CONFIG.colors.fur.white)]_vars

\* C6: updateFurColor and updateEyeColor change nothing in the scene (no
\* colour, no material reference) when no variant is active or when the
\* colour id is not a key of the channel's table.
C6_UnknownColourIsNoOp ==
    /\ \A c \in FurInputs :
          (sceneManager.currentBear = "null" \/ c \notin DOMAIN CONFIG.colors.fur)
            => updateFurColor(sceneManager, c) = sceneManager
    /\ \A c \in EyeInputs :
          (sceneManager.currentBear = "null" \/ c \notin DOMAIN CONFIG.colors.eyes)
            => updateEyeColor(sceneManager, c) = sceneManager

\* C10: once all six assets are loaded, resetAll leaves sitting as the
\* only visible variant, with the default fur colour on its non-exempt
\* surfaces and the default eye colour on its exempt ones, every accessory
\* hidden and the configuration state equal to the default record.
C10_ResetAllRestoresDefaults ==
    AllAssetsLoaded =>
        LET after == resetAll_scene(sceneManager)
        IN /\ VisibleVariants(after) = {CONFIG.defaultState.form}
           /\ FurIs(after, CONFIG.defaultState.form,
                    CONFIG.colors.fur[CONFIG.defaultState.furColor])
           /\ EyesAre(after, CONFIG.defaultState.form,
                      CONFIG.colors.eyes[CONFIG.defaultState.eyeColor])
           /\ \A a \in AccessoryNames : ~after.visible[a]
           /\ BearState_reset(bearState) = BearState_new

----------------------------------------------------------------------------
(* Observations and claims of part_000 *)

AllFourLoaded == \A l \in Loads : requests[l] = "loaded"

HatGroup == {"hat", "beanie"}

ScarfColorIs(pg, color) ==
    \A i \in 1..MeshesPerAccessory : pg.meshColor["scarf"][i] = color

\* C3: at most one of hat and beanie is visible in every reachable state,
\* and right after updateHat(A) with A loaded, A is visible and the other
\* member of the group is not.
C3_HatGroupExclusive ==
    /\ ~(page.visible["hat"] /\ page.visible["beanie"])
    /\ \A A \in HatGroup :
          page.accessories[A] =>
              LET after == updateHat(page, A)
              IN /\ after.visible[A]
                 /\ \A other \in HatGroup \ {A} : ~after.visible[other]

\* C3 witness: the hat is shown while the beanie, hidden again, still
\* carries the non-default colour it got when it was the one shown.
C3_Witness ==
    /\ page.visible["hat"] /\ ~page.visible["beanie"]
    /\ page.state.currentHat = "hat"
    /\ page.meshColor["beanie"][1] = 16711680

\* C7: while neither all four loads have succeeded nor the fallback timer
\* has fired, the controls are disabled, no listener of a control can run,
\* and the configuration state is the default one.
C7_DisabledUntilLoadedOrTimer ==
    ~(AllFourLoaded \/ timer = "fired") =>
        /\ page.disabled
        /\ ~ENABLED UserAction
        /\ page.state = state_new

\* C7 witness: three loads have succeeded, one has failed, the timer is
\* still pending and the controls are disabled.
C7_Witness ==
    /\ timer = "pending"
    /\ requests["bear"] = "loaded" /\ requests["hat"] = "loaded"
    /\ requests["beanie"] = "loaded" /\ requests["scarf"] = "failed"
    /\ page.disabled

\* C8: the controls eventually become enabled whatever the loads do, and
\* once enabled they are never disabled again.
C8_EventuallyEnabledForGood ==
    /\ <>(~page.disabled)
    /\ [][~page.disabled => ~page'.disabled]_vars

\* C8 witness: the timer has fired with one load failed and another still
\* under way, and the controls are enabled.
C8_Witness ==
    /\ timer = "fired"
    /\ ~page.disabled
    /\ \E l \in Loads : requests[l] = "failed"
    /\ \E l \in Loads : requests[l] = "loading"

\* C9: with the scarf shown in a non-default accessory colour, resetAll
\* leaves the scarf hidden and the accessory colour back at the default
\* tint, in state.currentAccessoryColor and on the scarf's materials.
C9_ResetAllRevertsScarf ==
    (/\ page.accessories["scarf"]
     /\ page.visible["scarf"]
     /\ page.state.scarfVisible
     /\ page.state.currentAccessoryColor # CONFIG_part.defaults.accessoryColor
     /\ ScarfColorIs(page, page.state.currentAccessoryColor))
        => LET after == resetAll(page)
           IN /\ ~after.visible["scarf"]
              /\ after.state.currentAccessoryColor = CONFIG_part.defaults.accessoryColor
              /\ ScarfColorIs(after, CONFIG_part.defaults.accessoryColor)

----------------------------------------------------------------------------
(* Claims of script.js : algebra and frame of the scene operations *)

\* C11: for every form id F, calling switchBearForm(F) a second time right
\* after the first leaves the visible flags of the variants and currentBear
\* (and the rest of the scene) exactly as the first call left them.
C11_SwitchIsIdempotent ==
    \A F \in FormInputs :
        LET once == switchBearForm(sceneManager, F)
            twice == switchBearForm(once, F)
        IN /\ VisibleVariants(twice) = VisibleVariants(once)
           /\ twice.currentBear = once.currentBear
           /\ twice = once

\* C11 witness: standing is the bear shown and sitting is registered and
\* hidden, so that switchBearForm("sitting") changes the scene.
C11_Witness ==
    /\ sceneManager.currentBear = "standing"
    /\ VisibleVariants(sceneManager) = {"standing"}
    /\ Registered(sceneManager, "sitting")
    /\ switchBearForm(sceneManager, "sitting").currentBear = "sitting"
    /\ VisibleVariants(switchBearForm(sceneManager, "sitting")) = {"sitting"}

\* C12: whatever the configuration state holds (form or colour ids that
\* CONFIG does not know, accessory keys added by a checkbox), reset()
\* yields a record equal to the default record, field by field and key by
\* key.
C12_ResetYieldsDefault ==
    LET after == BearState_reset(bearState)
    IN /\ after = BearState_new
       /\ after.currentForm = CONFIG.defaultState.form
       /\ after.furColor = CONFIG.defaultState.furColor
       /\ after.eyeColor = CONFIG.defaultState.eyeColor
       /\ DOMAIN after.accessories = DOMAIN CONFIG.defaultState.accessories
       /\ \A k \in DOMAIN after.accessories :
              after.accessories[k] = CONFIG.defaultState.accessories[k]

\* C12 witness: the state holds a form id and a fur colour id that CONFIG
\* does not know and an accessory key that the default record lacks.
C12_Witness ==
    /\ bearState.currentForm \notin Forms
    /\ bearState.furColor \notin DOMAIN CONFIG.colors.fur
    /\ "glasses" \in DOMAIN bearState.accessories
    /\ bearState.accessories["glasses"]
    /\ bearState.accessories["hat"]
    /\ BearState_reset(bearState) # bearState

\* C13: for every fur colour C of the table and the default colour C0,
\* updateFurColor(C), updateFurColor(C0), updateFurColor(C) in a row leave
\* on every mesh the colour that one updateFurColor(C) leaves, which is C
\* on every non-exempt mesh of the active variant: nothing of C0 or of the
\* first call remains.
C13_FurRoundTrip ==
    \A C \in DOMAIN CONFIG.colors.fur :
        LET C0 == CONFIG.defaultState.furColor
            once == updateFurColor(sceneManager, C)
            thrice == updateFurColor(
                          updateFurColor(updateFurColor(sceneManager, C), C0), C)
        IN /\ \A m \in Meshes : ObservedColor(thrice, m) = ObservedColor(once, m)
           /\ sceneManager.currentBear # "null" =>
                  /\ FurIs(thrice, sceneManager.currentBear, CONFIG.colors.fur[C])
                  /\ FurIs(once, sceneManager.currentBear, CONFIG.colors.fur[C])

\* C13 witness: sitting, styled brown by its load callback, is the active
\* variant and has since been recoloured: its fur meshes, each on its own
\* material, are white, and so is the selection in the state.
C13_Witness ==
    /\ sceneManager.currentBear = "sitting"
    /\ bearState.furColor = "white"
    /\ \E i, j \in 1..MeshesPerModel :
          /\ i # j
          /\ \A n \in {i, j} :
                /\ ~Exempt(sceneManager, <<"sitting", n>>)
                /\ sceneManager.meshMaterial[<<"sitting", n>>] = 0
                /\ ObservedColor(sceneManager, <<"sitting", n>>) = CONFIG.colors.fur.white
    /\ \E m \in Meshes :
          ObservedColor(updateFurColor(sceneManager, CONFIG.defaultState.furColor), m)
              # ObservedColor(sceneManager, m)

\* the checkbox listener's scene call for each accessory of a set, each
\* with the value its checkbox gets when exactly the members of shown are
\* ticked
RECURSIVE toggleEach(_, _, _)
toggleEach(sm, names, shown) ==
    IF names = {} THEN sm
    ELSE LET a == CHOOSE x \in names : TRUE
         IN toggleEach(toggleAccessory(sm, a, a \in shown), names \ {a}, shown)

\* C15: toggleAccessory(a, v) sets the visible flag of a to v when a is
\* registered and changes nothing when it is not (a known name not yet
\* loaded, or an unknown name); the flags of the other accessories and of
\* the variants, currentBear and everything else in the scene stay as they
\* were. With the three accessories registered, toggles reach every
\* combination of visible hat, bow and scarf.
C15_ToggleTouchesOnlyItsFlag ==
    /\ \A a \in Checkboxes : \A v \in BOOLEAN :
          LET after == toggleAccessory(sceneManager, a, v)
          IN IF a \in AccessoryNames /\ sceneManager.accessories[a]
             THEN /\ after.visible[a] = v
                  /\ \A other \in Assets \ {a} :
                        after.visible[other] = sceneManager.visible[other]
                  /\ after.currentBear = sceneManager.currentBear
                  /\ after = [sceneManager EXCEPT !.visible[a] = v]
             ELSE after = sceneManager
    /\ (\A a \in AccessoryNames : sceneManager.accessories[a]) =>
          \A shown \in SUBSET AccessoryNames :
              {a \in AccessoryNames :
                  toggleEach(sceneManager, AccessoryNames, shown).visible[a]} = shown

\* C15 witness: hat, bow and scarf are registered and all three are shown
\* next to the one visible bear.
C15_Witness ==
    /\ \A a \in AccessoryNames : sceneManager.accessories[a] /\ sceneManager.visible[a]
    /\ sceneManager.currentBear # "null"
    /\ Cardinality(VisibleVariants(sceneManager)) = 1

\* what the success callback of loadModel and the callback of loadAssets
\* do to the scene for one asset
Completion(sm, name) ==
    loadAssets_callback(loadModel_onLoad(sm, name), bearState, name)

\* C17: with no UI event, once all six loads have succeeded the scene is
\* the same whatever the order of the completions: sitting registered,
\* current, visible and styled with the default fur and eye colours,
\* standing and compact registered, hidden and with the materials of their
\* files, hat, bow and scarf registered, hidden and at the transform their
\* callbacks give. Any two completions still to come give the same scene
\* in either order.
C17_LoadOrderIndependent ==
    /\ AllAssetsLoaded =>
          /\ \A f \in Forms : sceneManager.bearModels[f]
          /\ \A a \in AccessoryNames : sceneManager.accessories[a]
          /\ sceneManager.currentBear = "sitting"
          /\ \A a \in Assets : sceneManager.visible[a] <=> (a = "sitting")
          /\ FurIs(sceneManager, "sitting",
                   CONFIG.colors.fur[CONFIG.defaultState.furColor])
          /\ EyesAre(sceneManager, "sitting",
                     CONFIG.colors.eyes[CONFIG.defaultState.eyeColor])
          /\ \A f \in Forms \ {"sitting"} : \A i \in 1..MeshesPerModel :
                /\ sceneManager.meshMaterial[<<f, i>>] # 0
                /\ ObservedColor(sceneManager, <<f, i>>)
                      = TemplateColor[sceneManager.meshMaterial[<<f, i>>]]
          /\ sceneManager.transform =
                [hat   |-> [x |-> 0, y |-> 170, z |-> 0, scale |-> NormalizedScale.hat],
                 bow   |-> [x |-> 30, y |-> 160, z |-> 0, scale |-> 80],
                 scarf |-> [x |-> 0, y |-> 100, z |-> 0, scale |-> NormalizedScale.scarf]]
    /\ \A a, b \in Assets :
          (a # b /\ loadState[a] = "loading" /\ loadState[b] = "loading") =>
              Completion(Completion(sceneManager, a), b)
                  = Completion(Completion(sceneManager, b), a)

\* C17 witness: all six loads have succeeded and no control has been used.
C17_Witness ==
    /\ AllAssetsLoaded
    /\ bearState = BearState_new
    /\ sceneManager.currentBear = "sitting"
    /\ \A a \in AccessoryNames : sceneManager.accessories[a]

\* C21: after any sequence of checkbox changes, other control writes and
\* resets, CONFIG.defaultState holds the values it was written with, its
\* nested accessories mapping included, and bearState.accessories does not
\* refer to the accessories object of CONFIG.defaultState.
C21_DefaultStateImmutable ==
    /\ defaultState = CONFIG.defaultState
    /\ defaultState.accessories = [hat |-> FALSE, bow |-> FALSE, scarf |-> FALSE]
    /\ accessoriesRef \in ObjectRefs
    /\ accessoriesRef # "CONFIG.defaultState.accessories"

\* C21 witness: checkboxes have written into bearState.accessories, a key
\* the default lacks among them, and the state differs from the default
\* record in every field.
C21_Witness ==
    /\ bearState.accessories["hat"]
    /\ "glasses" \in DOMAIN bearState.accessories
    /\ bearState.accessories # defaultState.accessories
    /\ bearState.currentForm # defaultState.form
    /\ bearState.furColor # defaultState.furColor
    /\ bearState.eyeColor # defaultState.eyeColor

----------------------------------------------------------------------------
(* Claims of both programs *)

\* the objects of an asset of script.js that is not there are as the
\* constructor left them: not registered, not current, no flag, transform
\* or material of theirs written
SlotEmpty(sm, name) ==
    /\ ~sm.visible[name]
    /\ sm.currentBear # name
    /\ name \in AccessoryNames =>
          /\ ~sm.accessories[name]
          /\ sm.transform[name] = NoTransform
    /\ name \in Forms =>
          /\ ~sm.bearModels[name]
          /\ \A i \in 1..MeshesPerModel :
                /\ sm.meshMaterial[<<name, i>>] = SceneManager_new(DefaultLayout).meshMaterial[<<name, i>>]
                /\ sm.own[<<name, i>>] = NoMaterial
          /\ \A t \in Templates :
                sm.templates[<<name, t>>] = SceneManager_new(DefaultLayout).templates[<<name, t>>]

\* the same for a load of part_000
SlotEmpty_part(pg, name) ==
    /\ ~pg.loadingStatus[name]
    /\ name = "bear" =>
          /\ ~pg.bear
          /\ pg.bearParts = page_new(pg.bearFile).bearParts
          /\ pg.meshMaterial = page_new(pg.bearFile).meshMaterial
          /\ pg.own = page_new(pg.bearFile).own
          /\ pg.templates = page_new(pg.bearFile).templates
    /\ name \in AccessoryNames_part =>
          /\ ~pg.accessories[name]
          /\ ~pg.visible[name]
          /\ pg.meshColor[name] = page_new(pg.bearFile).meshColor[name]
          /\ pg.transform[name] = page_new(pg.bearFile).transform[name]

\* C16: in every state after a load has failed, in either program, the
\* slot of the asset is empty (nothing loads it again) and no handler that
\* has run since has written a flag, transform, colour or material of the
\* object that is not there, which is what raises an error in JavaScript:
\* every handler takes its guarded no-op branch for that slot.
C16_FailedSlotStaysEmpty ==
    /\ [](\A asset \in Assets :
            loadState[asset] = "failed" => SlotEmpty(sceneManager, asset))
    /\ [](\A load \in Loads :
            requests[load] = "failed" => SlotEmpty_part(page, load))
    /\ [][\A asset \in Assets :
            loadState[asset] = "failed" => loadState'[asset] = "failed"]_vars
    /\ [][\A load \in Loads :
            requests[load] = "failed" => requests'[load] = "failed"]_vars

\* C16 witness: the hat of script.js failed to load and its checkbox has
\* been ticked since, while the other loads went on and sitting is shown.
C16_Witness ==
    /\ loadState["hat"] = "failed"
    /\ checked["hat"] /\ bearState.accessories["hat"]
    /\ loadState["standing"] = "failed"
    /\ bearState.currentForm = "standing"
    /\ sceneManager.currentBear = "sitting"

----------------------------------------------------------------------------
(* Claims of part_000 : state, loads and materials *)

\* C14: once the controls are enabled, the function a selection control's
\* listener calls leaves the activated value in the field of the
\* configuration state that belongs to the control, whether or not the
\* model it acts on is loaded: skin, eye colour, nose colour, hat,
\* scarf and accessory colour.
C14_StateRecordsSelection ==
    ~page.disabled =>
        /\ \A skin \in SkinButtons :
              updateBearSkin(page, skin).state.skin = skin
        /\ \A color \in PartColorButtons :
              /\ updatePartColor(page, "eyes", color).state.eyeColor = color
              /\ updatePartColor(page, "nose", color).state.noseColor = color
        /\ \A value \in HatValues :
              updateHat(page, value).state.currentHat = value
        /\ \A visible \in BOOLEAN :
              toggleScarf(page, visible).state.scarfVisible = visible
        /\ \A color \in AccColorButtons :
              updateCurrentAccessoryColor(page, color).state.currentAccessoryColor = color

\* the name of bear mesh i, lower-cased, contains 'eye' or 'nose'
NamedEyeOrNose(pg, i) ==
    \/ includes(toLowerCase(pg.bearFile[i].name), <<"e", "y", "e">>)
    \/ includes(toLowerCase(pg.bearFile[i].name), <<"n", "o", "s", "e">>)

BearMeshes(pg) == 1..Len(pg.bearFile)

\* C18: updateBearSkin leaves every bear mesh whose lower-cased name
\* contains 'eye' or 'nose' on the material object it had, with the
\* texture map and colour it had, whatever the names of the meshes of the
\* file are, several eye meshes or several nose meshes included.
C18_SkinSparesEyesAndNose ==
    \A skin \in CONFIG_part.textures :
        LET after == updateBearSkin(page, skin)
        IN \A i \in BearMeshes(page) :
              NamedEyeOrNose(page, i) =>
                  /\ after.meshMaterial[i] = page.meshMaterial[i]
                  /\ bearMaterial(after, i) = bearMaterial(page, i)

\* C19: in every state in which all four assets are loaded, whatever the
\* order of the load completions, the fallback timer and the hat, scarf
\* and reset-all handlers before, the scene shows what the state says:
\* the hat is visible exactly if currentHat is 'hat', the beanie exactly
\* if currentHat is 'beanie', the scarf exactly if scarfVisible.
C19_SceneAgreesWithState ==
    AllFourLoaded =>
        /\ page.visible["hat"] <=> (page.state.currentHat = "hat")
        /\ page.visible["beanie"] <=> (page.state.currentHat = "beanie")
        /\ page.visible["scarf"] <=> page.state.scarfVisible

\* C20: whatever material objects the meshes of the file share and
\* whatever skins and part colours were applied before,
\* updatePartColor('eyes', c) leaves colour c on every mesh of
\* bearParts.eyes and updatePartColor('nose', c) on bearParts.nose, and
\* each leaves the colour and the texture map seen on every other mesh,
\* and the texture map of the meshes it colours, as they were.
C20_PartColourDoesNotLeak ==
    \A c \in PartColorButtons :
        LET afterEyes == updatePartColor(page, "eyes", c)
            afterNose == updatePartColor(page, "nose", c)
        IN \A i \in BearMeshes(page) :
              /\ bearMaterial(afterEyes, i).map = bearMaterial(page, i).map
              /\ bearMaterial(afterNose, i).map = bearMaterial(page, i).map
              /\ bearMaterial(afterEyes, i).color =
                    IF isEye(page, i) THEN c ELSE bearMaterial(page, i).color
              /\ bearMaterial(afterNose, i).color =
                    IF page.bearParts.nose = i THEN c ELSE bearMaterial(page, i).color

\* C20 witness: an eye mesh, the nose mesh and the body mesh of the loaded
\* bear were on one material object of the file; by now the body has the
\* panda skin, the eye is brown and the nose still black.
C20_Witness ==
    /\ page.bear
    /\ \E e, n, b \in BearMeshes(page) :
          /\ isEye(page, e) /\ page.bearParts.nose = n /\ page.bearParts.body = b
          /\ page.bearFile[e].material = page.bearFile[n].material
          /\ page.bearFile[n].material = page.bearFile[b].material
          /\ bearMaterial(page, e).color = 9127187
          /\ bearMaterial(page, n).color = 0
          /\ bearMaterial(page, b).map = "panda"

\* C22: in every reachable state of part_000, whatever the order of the
\* accessory loads, the timer and the hat, scarf, accessory-colour and
\* reset-all handlers, each accessory that is visible has
\* state.currentAccessoryColor on every one of its materials.
C22_VisibleAccessoryHasCurrentColour ==
    \A a \in AccessoryNames_part :
        page.visible[a] =>
            \A i \in 1..MeshesPerAccessory :
                page.meshColor[a][i] = page.state.currentAccessoryColor

\* C22 witness: hat and scarf are shown in the non-default colour chosen
\* while they were visible, and the hidden beanie still has the default
\* one.
C22_Witness ==
    /\ page.visible["hat"] /\ page.visible["scarf"]
    /\ page.state.currentAccessoryColor = 16711680
    /\ \A i \in 1..MeshesPerAccessory :
          /\ page.meshColor["hat"][i] = 16711680
          /\ page.meshColor["scarf"][i] = 16711680
    /\ page.accessories["beanie"] /\ ~page.visible["beanie"]
    /\ page.meshColor["beanie"][1] = CONFIG_part.defaults.accessoryColor

====
